---------------------------- MODULE Spec2Model ----------------------------
(***************************************************************************)
(* A model of the job scraper (src/main.py): one scrape cycle fans a       *)
(* fetch-and-parse task per result page out over a bounded thread pool,    *)
(* collects the pages' listings in page order, sorts them by age and       *)
(* writes the report; the driver repeats the cycle on an interval.         *)
(*                                                                         *)
(* Texts (the posted-date phrase, the skill lists) are sequences of        *)
(* one-character strings, so that the substring tests, the regular         *)
(* expressions and the split/lower/strip calls of the source are computed  *)
(* character by character.                                                 *)
(***************************************************************************)
EXTENDS Integers, Sequences, FiniteSets, TLC

(***************************************************************************)
(* Bounds of the model.                                                    *)
(***************************************************************************)
\* Largest total-match count the count probe reports.
MaxTotal == 3
\* Number of polling cycles the driver is followed through.
MaxCycles == 2
\* Largest n of the phrases "<n> days ago" and "<n> months ago".
MaxN == 10000
\* Longest free phrase, in words.
MaxWords == 3
\* Longest list of skills, in the SKILLS setting and on a listing.
MaxSkills == 2

(***************************************************************************)
(* Characters.                                                             *)
(***************************************************************************)
LowerLetters ==
    <<"a","b","c","d","e","f","g","h","i","j","k","l","m",
      "n","o","p","q","r","s","t","u","v","w","x","y","z">>

UpperLetters ==
    <<"A","B","C","D","E","F","G","H","I","J","K","L","M",
      "N","O","P","Q","R","S","T","U","V","W","X","Y","Z">>

DigitChars == <<"0","1","2","3","4","5","6","7","8","9">>

Range(s) == {s[i] : i \in 1..Len(s)}

IsDigit(c) == c \in Range(DigitChars)

\* \w of the regular expressions: a letter, a digit or the underscore.
IsWordChar(c) ==
    c \in Range(LowerLetters) \cup Range(UpperLetters) \cup Range(DigitChars) \cup {"_"}

\* Whitespace as str.strip() removes it.
IsSpace(c) == c \in {" ", "\n", "\t"}

DigitVal(c) == (CHOOSE i \in 1..10 : DigitChars[i] = c) - 1

\* str.lower() on one character.
LowerChar(c) ==
    IF c \in Range(UpperLetters)
    THEN LowerLetters[CHOOSE i \in 1..26 : UpperLetters[i] = c]
    ELSE c

(***************************************************************************)
(* The string methods the source calls.                                    *)
(***************************************************************************)
\* w in t
Contains(t, w) ==
    \E i \in 1..(Len(t) - Len(w) + 1) : SubSeq(t, i, i + Len(w) - 1) = w

\* t.replace(c, "") for a single character c
RemoveChar(t, c) == SelectSeq(t, LAMBDA x : x # c)

\* t.lower()
Lower(t) == [i \in 1..Len(t) |-> LowerChar(t[i])]

RECURSIVE LStrip(_)
LStrip(t) == IF t # <<>> /\ IsSpace(Head(t)) THEN LStrip(Tail(t)) ELSE t

RECURSIVE RStrip(_)
RStrip(t) ==
    IF t # <<>> /\ IsSpace(t[Len(t)]) THEN RStrip(SubSeq(t, 1, Len(t) - 1)) ELSE t

\* t.strip()
Strip(t) == RStrip(LStrip(t))

\* t.split(","): the pieces between the commas, the empty ones included.
RECURSIVE Split(_)
Split(t) ==
    IF \E i \in 1..Len(t) : t[i] = ","
    THEN LET i == CHOOSE k \in 1..Len(t) :
                     t[k] = "," /\ \A j \in 1..(k - 1) : t[j] # ","
         IN  <<SubSeq(t, 1, i - 1)>> \o Split(SubSeq(t, i + 1, Len(t)))
    ELSE <<t>>

\* int(ds) for a string of decimal digits
RECURSIVE ToInt(_)
ToInt(ds) ==
    IF ds = <<>> THEN 0
    ELSE 10 * ToInt(SubSeq(ds, 1, Len(ds) - 1)) + DigitVal(ds[Len(ds)])

(***************************************************************************)
(* re.findall(r"(\b\d+\b)\W<unit>", t).  A match that starts at p is the   *)
(* whole run of digits at p (a shorter run is followed by a digit, where   *)
(* \b fails), preceded by no word character, followed by exactly one       *)
(* non-word character and then the unit.                                   *)
(***************************************************************************)
RECURSIVE DigitRunEnd(_, _)
DigitRunEnd(t, p) ==
    IF p + 1 <= Len(t) /\ IsDigit(t[p + 1]) THEN DigitRunEnd(t, p + 1) ELSE p

MatchesAt(t, p, unit) ==
    /\ IsDigit(t[p])
    /\ p = 1 \/ ~IsWordChar(t[p - 1])
    /\ LET q == DigitRunEnd(t, p)
       IN  /\ q + 1 + Len(unit) <= Len(t)
           /\ ~IsWordChar(t[q + 1])
           /\ SubSeq(t, q + 2, q + 1 + Len(unit)) = unit

RECURSIVE FindAllFrom(_, _, _)
FindAllFrom(t, p, unit) ==
    IF p > Len(t) THEN <<>>
    ELSE IF MatchesAt(t, p, unit)
         THEN LET q == DigitRunEnd(t, p)
              IN  <<SubSeq(t, p, q)>> \o FindAllFrom(t, q + 2 + Len(unit), unit)
         ELSE FindAllFrom(t, p + 1, unit)

FindAll(t, unit) == FindAllFrom(t, 1, unit)

(***************************************************************************)
(* Words of the site's vocabulary.                                         *)
(***************************************************************************)
Today  == <<"t","o","d","a","y">>
Few    == <<"f","e","w">>
Days   == <<"d","a","y","s">>
Day    == <<"d","a","y">>
A      == <<"a">>
Month  == <<"m","o","n","t","h">>
Months == <<"m","o","n","t","h","s">>
Ago    == <<"a","g","o">>
Posted == <<"P","o","s","t","e","d">>
FewDays == Few \o <<" ">> \o Days
AMonth  == A \o <<" ">> \o Month

(***************************************************************************)
(* The conversion of the published-date text to a number of days           *)
(* (scrape_jobs_from_page, lines 88-101): the first test that succeeds     *)
(* decides; -1 when none does.                                             *)
(***************************************************************************)
\* The same tests with the numeric ones tried first.
DaysOldNumbersFirst(published_date_text) ==
    IF Len(FindAll(published_date_text, Day)) > 0
        THEN ToInt(FindAll(published_date_text, Day)[1])
    ELSE IF Len(FindAll(published_date_text, Month)) > 0
        THEN ToInt(FindAll(published_date_text, Month)[1]) * 30
    ELSE IF Contains(published_date_text, Today) THEN 0
    ELSE IF Contains(published_date_text, FewDays) THEN 4
    ELSE IF Contains(published_date_text, AMonth) THEN 30
    ELSE -1

DaysOld(published_date_text) ==
    IF Contains(published_date_text, Today) THEN 0
    ELSE IF Contains(published_date_text, FewDays) THEN 4
    ELSE IF Contains(published_date_text, AMonth) THEN 30
    ELSE IF Len(FindAll(published_date_text, Day)) > 0
        THEN ToInt(FindAll(published_date_text, Day)[1])
    ELSE IF Len(FindAll(published_date_text, Month)) > 0
        THEN ToInt(FindAll(published_date_text, Month)[1]) * 30
    ELSE -1

(***************************************************************************)
(* The skill filter (scrape_jobs_from_page, lines 76-80).                  *)
(***************************************************************************)
\* job_result.find(...).text.replace(" ", "").replace(chr(34), "").strip().lower()
AllSkills(skills_text) ==
    Lower(Strip(RemoveChar(RemoveChar(skills_text, " "), "\"")))

\* A listing is kept as soon as it advertises one of the wanted skills.
HasSkillsAnyOf(skills, all_skills) ==
    Range(Split(RemoveChar(skills, " "))) \cap Range(Split(all_skills)) # {}

\* set(skills.replace(" ", "").split(",")).issubset(all_skills.split(","))
HasSkills(skills, all_skills) ==
    Range(Split(RemoveChar(skills, " "))) \subseteq Range(Split(all_skills))

\* The test of line 80: an empty skills setting is falsy and skips nothing.
LacksSkills(skills, all_skills) ==
    skills # <<>> /\ ~HasSkills(skills, all_skills)

(***************************************************************************)
(* The time-frame filter (line 104).                                       *)
(***************************************************************************)
\* The same test with the last allowed day left out.
OutsideTimeFrameOffByOne(days_old, max_days_old) ==
    days_old < 0 \/ days_old >= max_days_old

OutsideTimeFrame(days_old, max_days_old) ==
    days_old < 0 \/ days_old > max_days_old

(***************************************************************************)
(* scrape_jobs_from_page: the jobs of one fetched page, in the page's      *)
(* order.  A job_result is the part of a listing node that the function    *)
(* reads: the skills text, the posted-date text and the link.  A job is    *)
(* the pair <<days_old, text>>; of the text, the skills, the age the date  *)
(* is computed from and the link are kept (the company and industry lines  *)
(* play no part in filtering or ordering).                                 *)
(***************************************************************************)
RECURSIVE ScrapeJobsFromPage(_, _)
ScrapeJobsFromPage(job_results, prefs) ==
    IF job_results = <<>> THEN <<>>
    ELSE LET job_result == Head(job_results)
             all_skills == AllSkills(job_result.skills)
             days_old   == DaysOld(Strip(job_result.posted))
             rest       == ScrapeJobsFromPage(Tail(job_results), prefs)
         IN  IF LacksSkills(prefs.skills, all_skills) THEN rest
             ELSE IF OutsideTimeFrame(days_old, prefs.max_days_old) THEN rest
             ELSE <<  <<days_old,
                        [skills |-> all_skills, age |-> days_old,
                         link |-> job_result.link]>>  >> \o rest

(***************************************************************************)
(* jobs.sort(key=lambda x: x[0]) (line 285): list.sort is stable, which    *)
(* an insertion after the last job that is not older reproduces.           *)
(***************************************************************************)
RECURSIVE InsertJob(_, _)
InsertJob(job, sorted) ==
    IF sorted = <<>> THEN <<job>>
    ELSE IF job[1] < Head(sorted)[1] THEN <<job>> \o sorted
    ELSE <<Head(sorted)>> \o InsertJob(job, Tail(sorted))

\* An insertion before the first job that is not younger: sorted, not stable.
RECURSIVE InsertJobFirst(_, _)
InsertJobFirst(job, sorted) ==
    IF sorted = <<>> THEN <<job>>
    ELSE IF job[1] <= Head(sorted)[1] THEN <<job>> \o sorted
    ELSE <<Head(sorted)>> \o InsertJobFirst(job, Tail(sorted))

RECURSIVE SortJobsUnstable(_)
SortJobsUnstable(js) ==
    IF js = <<>> THEN <<>>
    ELSE InsertJobFirst(js[Len(js)], SortJobsUnstable(SubSeq(js, 1, Len(js) - 1)))

RECURSIVE SortJobs(_)
SortJobs(js) ==
    IF js = <<>> THEN <<>>
    ELSE InsertJob(js[Len(js)], SortJobs(SubSeq(js, 1, Len(js) - 1)))

(***************************************************************************)
(* The site's side: how a listing's skills and posted-date phrase are      *)
(* written out as text.  The inputs are kept in structured form (a list of *)
(* skill names, a list of words and numbers) beside their text, so that    *)
(* what the program makes of the text can be compared with what was meant. *)
(***************************************************************************)
Git  == <<"g","i","t">>
Sql  == <<"s","q","l">>
Java == <<"j","a","v","a">>
SkillNames == {Git, Sql, Java}

RECURSIVE Join(_, _)
Join(parts, sep) ==
    IF parts = <<>> THEN <<>>
    ELSE IF Len(parts) = 1 THEN parts[1]
    ELSE parts[1] \o sep \o Join(Tail(parts), sep)

RECURSIVE NatToChars(_)
NatToChars(n) ==
    IF n < 10 THEN <<DigitChars[n + 1]>>
    ELSE NatToChars(n \div 10) \o <<DigitChars[(n % 10) + 1]>>

Capitalize(w) ==
    [i \in 1..Len(w) |->
        IF i = 1 /\ w[i] \in Range(LowerLetters)
        THEN UpperLetters[CHOOSE k \in 1..26 : LowerLetters[k] = w[i]]
        ELSE w[i]]

\* The SKILLS setting: names separated by commas, spaces optional.
RenderFilter(names, spaced) ==
    Join(names, IF spaced THEN <<",", " ">> ELSE <<",">>)

ListingStyles == {"plain", "spaced", "quoted", "capital"}

\* The text of a listing's srp-skills span.
RenderSkills(names, style) ==
    CASE style = "plain"   -> Join(names, <<",">>)
      [] style = "spaced"  -> <<"\n", " ">> \o Join(names, <<" ", ",", " ">>) \o <<" ", "\n">>
      [] style = "quoted"  ->
            Join([i \in 1..Len(names) |-> <<"\"">> \o names[i] \o <<"\"">>], <<",", " ">>)
      [] style = "capital" -> Join([i \in 1..Len(names) |-> Capitalize(names[i])], <<",">>)

Word(w) == [kind |-> "word", word |-> w, num |-> 0]
Num(n)  == [kind |-> "num", word |-> <<>>, num |-> n]

\* The text of a listing's sim-posted span.
RenderPhrase(frags) ==
    Join([i \in 1..Len(frags) |->
            IF frags[i].kind = "num" THEN NatToChars(frags[i].num) ELSE frags[i].word],
         <<" ">>)

SeqsUpTo(S, n) == UNION {[1..k -> S] : k \in 0..n}

(***************************************************************************)
(* State.                                                                  *)
(***************************************************************************)
VARIABLES
    user_prefs,            \* the preferences dictionary handed to main
    site,                  \* the result pages the site serves during this run
    pc,                    \* where the main thread stands
    cycle,                 \* the number of the current call of main
    total_search_results,  \* main's local, from get_total_results
    total_pages,           \* main's local (line 272)
    total_threads,         \* main's local (line 276)
    status,                \* the state of each page's future
    attempts,              \* how often scrape_jobs_from_page ran for each page
    page_jobs,             \* the result of each page's future
    next_page,             \* the page whose result executor.map yields next
    cancel_at,             \* the future the iterator's cleanup cancels next
    jobs,                  \* the list scrape_jobs builds and main sorts
    error,                 \* the exception in flight, "none" without one
    report,                \* what print_jobs last wrote to the results file
    fetched,               \* whether requests.get has been called in this run
    x_in,                  \* a single listing's inputs, in structured form
    x_raw,                 \* the listing node made of them
    x_days,                \* days_old as computed for it
    x_jobs,                \* jobs_in_page as returned for it
    x_pc                   \* whether the listing has been processed

cycle_vars ==
    <<pc, cycle, total_search_results, total_pages, total_threads, status,
      attempts, page_jobs, next_page, cancel_at, jobs, error, report, fetched>>

x_vars == <<x_in, x_raw, x_days, x_jobs, x_pc>>

vars == <<user_prefs, site, cycle_vars, x_vars>>

(***************************************************************************)
(* The preferences (lines 16-44 and 305-315).  The source documents a      *)
(* range for three of them and checks none, so values on both sides of     *)
(* each range are drawn.                                                   *)
(***************************************************************************)
MAX_DAYS_OLD == 30
RESULTS_PER_PAGE == 200
MAX_THREADS == 50

ValidConfig(prefs) ==
    /\ prefs.search_keywords # <<>>
    /\ prefs.max_days_old \in 0..330
    /\ prefs.results_per_page \in 1..200
    /\ prefs.max_threads \in 1..100

AllConfigs ==
    [skills           : {Git},
     max_days_old     : {MAX_DAYS_OLD, 331},
     results_per_page : {0, 1, 2, 201},
     max_threads      : {0, 1, 2, 101},
     search_keywords  : {<<>>, Java}]

\* The valid settings, and those with a single setting out of its range.
InvalidFields(prefs) ==
    {f \in {"search_keywords", "max_days_old", "results_per_page", "max_threads"} :
        CASE f = "search_keywords"  -> prefs.search_keywords = <<>>
          [] f = "max_days_old"     -> prefs.max_days_old \notin 0..330
          [] f = "results_per_page" -> prefs.results_per_page \notin 1..200
          [] f = "max_threads"      -> prefs.max_threads \notin 1..100}

Configs == {prefs \in AllConfigs : Cardinality(InvalidFields(prefs)) <= 1}

(***************************************************************************)
(* The result pages the site may serve: each a list of listings, given     *)
(* here by their skills, the style they are written in and their phrase.   *)
(***************************************************************************)
Listing(names, style, frags, link) ==
    [skills |-> RenderSkills(names, style),
     posted |-> RenderPhrase(frags),
     link   |-> link]

PageTemplates ==
    { << <<  <<Git, Sql>>, "quoted",  <<Word(Posted), Num(3), Word(Days), Word(Ago)>>  >>,
         <<  <<Git>>,      "capital", <<Word(Posted), Word(Today)>>  >> >>,
      << <<  <<Java, Git>>, "spaced", <<Word(Posted), Word(Few), Word(Days), Word(Ago)>>  >>,
         <<  <<Sql>>,       "plain",  <<Word(Posted), Num(3), Word(Days), Word(Ago)>>  >>,
         <<  <<Git>>,       "plain",  <<Word(Posted), Num(2), Word(Months), Word(Ago)>>  >> >> }

\* What the site serves: one template for the odd pages, one for the even.
Sites == [1..2 -> PageTemplates]

\* The listing nodes of page page_number.
JobResults(page_number) ==
    LET tpl == site[((page_number - 1) % 2) + 1]
    IN  [k \in 1..Len(tpl) |->
            Listing(tpl[k][1], tpl[k][2], tpl[k][3], <<page_number, k>>)]

Pages == 1..total_pages

Running == {i \in DOMAIN status : status[i] = "running"}

(***************************************************************************)
(* The thread pool (line 55): max_workers threads, each running one task   *)
(* at a time and taking the tasks in the order they were submitted.        *)
(***************************************************************************)
\* A pool that starts a thread for every task submitted.
WorkerAvailableUnbounded == TRUE

WorkerAvailable == Cardinality(Running) < total_threads

\* The with block's exit without the wait: shutdown(wait=False).
PoolJoinedNoWait == TRUE

\* The with block's exit, shutdown(wait=True): every worker has drained the
\* queue and stopped.
PoolJoined == \A i \in DOMAIN status : status[i] \notin {"pending", "running"}

(***************************************************************************)
(* main (lines 251-300) and the driver (lines 303-325).  The industry      *)
(* prompt between the two count probes (lines 263-266) is left out: it     *)
(* changes the query, not the course of the cycle.                         *)
(***************************************************************************)
NoReport ==
    [written |-> FALSE, total_search_results |-> 0, total_pages |-> 0,
     total_threads |-> 0, found |-> 0, entries |-> <<>>]

CycleInit ==
    /\ pc = "probe1"
    /\ cycle = 1
    /\ total_search_results = 0
    /\ total_pages = 0
    /\ total_threads = 0
    /\ status = <<>>
    /\ attempts = <<>>
    /\ page_jobs = <<>>
    /\ next_page = 1
    /\ cancel_at = 0
    /\ jobs = <<>>
    /\ error = "none"
    /\ report = NoReport
    /\ fetched = FALSE

XIdle ==
    /\ x_in = [filter |-> <<>>, spaced |-> FALSE, names |-> <<>>,
               style |-> "plain", frags |-> <<>>]
    /\ x_raw = Listing(<<>>, "plain", <<>>, <<0, 0>>)
    /\ x_days = -1
    /\ x_jobs = <<>>
    /\ x_pc = "off"

Init ==
    /\ user_prefs \in Configs
    /\ site \in Sites
    /\ CycleInit
    /\ XIdle

\* An exception that nothing catches ends main, and with it the program.
Crash(exception) ==
    /\ pc' = "crashed"
    /\ error' = exception

\* get_total_results (lines 199-203): one fetch; it returns the count the page
\* shows, or fails in the fetch or on a page without the count.
GetTotalResults(after) ==
    /\ fetched' = TRUE
    /\ \/ \E count \in 0..MaxTotal :
            /\ total_search_results' = count
            /\ pc' = after
            /\ error' = error
       \/ /\ Crash("probe_failed")
          /\ UNCHANGED total_search_results

\* Line 260.
Probe1 ==
    /\ pc = "probe1"
    /\ GetTotalResults("probe2")
    /\ UNCHANGED <<user_prefs, site, cycle, total_pages, total_threads, status, attempts,
                   page_jobs, next_page, cancel_at, jobs, report, x_vars>>

\* Line 269.
Probe2 ==
    /\ pc = "probe2"
    /\ GetTotalResults("plan")
    /\ UNCHANGED <<user_prefs, site, cycle, total_pages, total_threads, status, attempts,
                   page_jobs, next_page, cancel_at, jobs, report, x_vars>>

\* Line 272, for results_per_page > 0.
TotalPages(results, results_per_page) ==
    (results \div results_per_page)
        + (IF results % results_per_page > 0 THEN 1 ELSE 0)

\* Line 276.
TotalThreads(pages, max_threads) ==
    IF pages < max_threads THEN pages ELSE max_threads

\* Lines 272-276: the division raises ZeroDivisionError for a page size of 0.
Plan ==
    /\ pc = "plan"
    /\ IF user_prefs.results_per_page = 0
       THEN /\ Crash("ZeroDivisionError")
            /\ UNCHANGED <<total_pages, total_threads>>
       ELSE /\ total_pages' =
                   TotalPages(total_search_results, user_prefs.results_per_page)
            /\ total_threads' = TotalThreads(total_pages', user_prefs.max_threads)
            /\ pc' = "scrape"
            /\ error' = error
    /\ UNCHANGED <<user_prefs, site, cycle, total_search_results, status, attempts,
                   page_jobs, next_page, cancel_at, jobs, report, fetched, x_vars>>

\* scrape_jobs, lines 55-58: ThreadPoolExecutor raises ValueError for
\* max_workers <= 0; otherwise executor.map submits one task per page, all of
\* them before it returns its iterator.
EnterPool ==
    /\ pc = "scrape"
    /\ IF total_threads <= 0
       THEN /\ Crash("ValueError")
            /\ UNCHANGED <<status, attempts, page_jobs, next_page, jobs>>
       ELSE /\ status' = [i \in Pages |-> "pending"]
            /\ attempts' = [i \in Pages |-> 0]
            /\ page_jobs' = [i \in Pages |-> <<>>]
            /\ next_page' = 1
            /\ jobs' = <<>>
            /\ pc' = "collect"
            /\ error' = error
    /\ UNCHANGED <<user_prefs, site, cycle, total_search_results, total_pages,
                   total_threads, cancel_at, report, fetched, x_vars>>

\* A worker thread takes the oldest task that is still pending and calls
\* scrape_jobs_from_page for its page.
StartTask(i) ==
    /\ status[i] = "pending"
    /\ \A j \in 1..(i - 1) : status[j] # "pending"
    /\ WorkerAvailable
    /\ status' = [status EXCEPT ![i] = "running"]
    /\ attempts' = [attempts EXCEPT ![i] = @ + 1]
    /\ fetched' = TRUE
    /\ UNCHANGED <<user_prefs, site, pc, cycle, total_search_results, total_pages,
                   total_threads, page_jobs, next_page, cancel_at, jobs, error,
                   report, x_vars>>

\* scrape_jobs_from_page returns the jobs of the page the site served.
FinishTask(i) ==
    /\ status[i] = "running"
    /\ page_jobs' = [page_jobs EXCEPT
                        ![i] = ScrapeJobsFromPage(JobResults(i), user_prefs)]
    /\ status' = [status EXCEPT ![i] = "done"]
    /\ UNCHANGED <<user_prefs, site, pc, cycle, total_search_results, total_pages,
                   total_threads, attempts, next_page, cancel_at, jobs, error,
                   report, fetched, x_vars>>

\* scrape_jobs_from_page raises: a fetch fails, or a node it reads is missing.
\* The future keeps the exception.
FailTask(i) ==
    /\ status[i] = "running"
    /\ status' = [status EXCEPT ![i] = "failed"]
    /\ UNCHANGED <<user_prefs, site, pc, cycle, total_search_results, total_pages,
                   total_threads, attempts, page_jobs, next_page, cancel_at, jobs,
                   error, report, fetched, x_vars>>

\* list(chain.from_iterable(executor.map(...))): the iterator yields the
\* results in page order, waiting for each; the list takes that page's jobs.
CollectResult ==
    /\ pc = "collect"
    /\ next_page <= total_pages
    /\ status[next_page] = "done"
    /\ jobs' = jobs \o page_jobs[next_page]
    /\ next_page' = next_page + 1
    /\ UNCHANGED <<user_prefs, site, pc, cycle, total_search_results, total_pages,
                   total_threads, status, attempts, page_jobs, cancel_at, error,
                   report, fetched, x_vars>>

\* The future the iterator waits for has failed: result() raises its
\* exception in the main thread, and the iterator's cleanup begins.
RaiseResult ==
    /\ pc = "collect"
    /\ next_page <= total_pages
    /\ status[next_page] = "failed"
    /\ pc' = "cancel"
    /\ error' = "page_failed"
    /\ cancel_at' = total_pages
    /\ UNCHANGED <<user_prefs, site, cycle, total_search_results, total_pages,
                   total_threads, status, attempts, page_jobs, next_page, jobs,
                   report, fetched, x_vars>>

\* The cleanup cancels the futures not yet yielded, the last page first; only
\* a future that is still pending can be cancelled.
CancelFuture ==
    /\ pc = "cancel"
    /\ cancel_at > next_page
    /\ status' = [status EXCEPT
                     ![cancel_at] = IF @ = "pending" THEN "cancelled" ELSE @]
    /\ cancel_at' = cancel_at - 1
    /\ UNCHANGED <<user_prefs, site, pc, cycle, total_search_results, total_pages,
                   total_threads, attempts, page_jobs, next_page, jobs, error,
                   report, fetched, x_vars>>

\* The with block ends, with the list complete or with the exception in
\* flight, and joins the pool; scrape_jobs returns the list or raises.
ExitPool ==
    /\ \/ pc = "collect" /\ next_page > total_pages
       \/ pc = "cancel" /\ cancel_at = next_page
    /\ PoolJoined
    /\ pc' = IF error = "none" THEN "sort" ELSE "crashed"
    /\ UNCHANGED <<user_prefs, site, cycle, total_search_results, total_pages,
                   total_threads, status, attempts, page_jobs, next_page, cancel_at,
                   jobs, error, report, fetched, x_vars>>

\* Line 285.
Sort ==
    /\ pc = "sort"
    /\ jobs' = SortJobs(jobs)
    /\ pc' = "print"
    /\ UNCHANGED <<user_prefs, site, cycle, total_search_results, total_pages,
                   total_threads, status, attempts, page_jobs, next_page, cancel_at,
                   error, report, fetched, x_vars>>

\* print_jobs (lines 206-248): the statistics, then the jobs numbered from 1
\* in the order of the list.
PrintJobs ==
    /\ pc = "print"
    /\ report' =
          [written |-> TRUE,
           total_search_results |-> total_search_results,
           total_pages |-> total_pages,
           total_threads |-> total_threads,
           found |-> Len(jobs),
           entries |-> [i \in 1..Len(jobs) |-> [number |-> i, text |-> jobs[i][2]]]]
    /\ pc' = "sleep"
    /\ UNCHANGED <<user_prefs, site, cycle, total_search_results, total_pages,
                   total_threads, status, attempts, page_jobs, next_page, cancel_at,
                   jobs, error, fetched, x_vars>>

\* Lines 319-325: after the wait, main is called again.  The locals of the
\* call that returned are gone; the preferences and the results file stay.
Sleep ==
    /\ pc = "sleep"
    /\ cycle < MaxCycles
    /\ cycle' = cycle + 1
    /\ pc' = "probe1"
    /\ total_search_results' = 0
    /\ total_pages' = 0
    /\ total_threads' = 0
    /\ status' = <<>>
    /\ attempts' = <<>>
    /\ page_jobs' = <<>>
    /\ next_page' = 1
    /\ cancel_at' = 0
    /\ jobs' = <<>>
    /\ UNCHANGED <<user_prefs, site, error, report, fetched, x_vars>>

Next ==
    \/ Probe1
    \/ Probe2
    \/ Plan
    \/ EnterPool
    \/ \E i \in DOMAIN status : StartTask(i)
    \/ \E i \in DOMAIN status : FinishTask(i)
    \/ \E i \in DOMAIN status : FailTask(i)
    \/ CollectResult
    \/ RaiseResult
    \/ CancelFuture
    \/ ExitPool
    \/ Sort
    \/ PrintJobs
    \/ Sleep

Spec == Init /\ [][Next]_vars

(***************************************************************************)
(* scrape_jobs_from_page on a single listing, for every combination of a   *)
(* skills setting, a listing's skills, a phrase and an age limit.          *)
(***************************************************************************)
CycleOff ==
    /\ pc = "off"
    /\ cycle = 1
    /\ total_search_results = 0
    /\ total_pages = 0
    /\ total_threads = 0
    /\ status = <<>>
    /\ attempts = <<>>
    /\ page_jobs = <<>>
    /\ next_page = 1
    /\ cancel_at = 0
    /\ jobs = <<>>
    /\ error = "none"
    /\ report = NoReport
    /\ fetched = FALSE
    /\ site = [i \in 1..2 |-> <<>>]

\* The lists of at most n skill names, none named twice.
NameLists(n) ==
    {l \in SeqsUpTo(SkillNames, n) :
        \A i, j \in 1..Len(l) : i # j => l[i] # l[j]}

SamplePhrases ==
    { <<Word(Posted), Word(Today)>>,
      <<Word(Posted), Num(3), Word(Days), Word(Ago)>>,
      <<Word(Posted), Word(Few), Word(Days), Word(Ago)>>,
      <<Word(Posted), Word(A), Word(Month), Word(Ago)>>,
      <<Word(Posted), Word(Ago)>> }

AgeLimits == {0, 3, 4, MAX_DAYS_OLD}

Prefs(skills, max_days_old) ==
    [skills |-> skills, max_days_old |-> max_days_old,
     results_per_page |-> RESULTS_PER_PAGE, max_threads |-> MAX_THREADS,
     search_keywords |-> Java]

ExtractInit ==
    /\ x_in \in [filter : NameLists(MaxSkills),
                 spaced : BOOLEAN,
                 names  : NameLists(MaxSkills) \ {<<>>},
                 style  : ListingStyles,
                 frags  : SamplePhrases]
    /\ x_raw = Listing(x_in.names, x_in.style, x_in.frags, <<1, 1>>)
    /\ \E limit \in AgeLimits :
          user_prefs = Prefs(RenderFilter(x_in.filter, x_in.spaced), limit)
    /\ x_days = -1
    /\ x_jobs = <<>>
    /\ x_pc = "ready"
    /\ CycleOff

\* scrape_jobs_from_page for a page that holds the one listing; days_old is
\* the value its loop body computes on the way (lines 88-101).
ExtractPage ==
    /\ x_pc = "ready"
    /\ x_days' = DaysOld(Strip(x_raw.posted))
    /\ x_jobs' = ScrapeJobsFromPage(<<x_raw>>, user_prefs)
    /\ x_pc' = "done"
    /\ UNCHANGED <<user_prefs, site, cycle_vars, x_in, x_raw>>

ExtractSpec == ExtractInit /\ [][ExtractPage]_vars

(***************************************************************************)
(* The same on the posted-date phrases: "<n> days ago" and "<n> months     *)
(* ago" for every n up to MaxN, and every phrase of at most MaxWords words *)
(* and numbers of the vocabulary.                                          *)
(***************************************************************************)
Vocabulary ==
    {Word(w) : w \in {Posted, Today, Few, Days, Day, A, Month, Months, Ago}}
        \cup {Num(n) : n \in {0, 3, 12}}

Phrases ==
    {<<Num(n), Word(unit), Word(Ago)>> : n \in 0..MaxN, unit \in {Days, Months}}
        \cup SeqsUpTo(Vocabulary, MaxWords)

DateInit ==
    /\ x_in \in [filter : {<<>>}, spaced : {FALSE}, names : {<<Git>>},
                 style : {"plain"}, frags : Phrases]
    /\ x_raw = Listing(x_in.names, x_in.style, x_in.frags, <<1, 1>>)
    /\ user_prefs = Prefs(<<>>, MAX_DAYS_OLD)
    /\ x_days = -1
    /\ x_jobs = <<>>
    /\ x_pc = "ready"
    /\ CycleOff

DateSpec == DateInit /\ [][ExtractPage]_vars

(***************************************************************************)
(* Properties.                                                             *)
(***************************************************************************)
Failed == {i \in DOMAIN status : status[i] = "failed"}

LeftScrape == pc \in {"sort", "print", "sleep"}

\* Whether the jobs of js all stand in the list l.
AllIn(js, l) == \A k \in 1..Len(js) : \E m \in 1..Len(l) : l[m] = js[k]

\* C1: when the task of one page fails and the tasks of all other pages
\* succeed, the cycle is not aborted: it goes on to its report, and the list
\* scrape_jobs returns holds every job of every other page.
C1_PartialFailureIsolation ==
    (\E i \in DOMAIN status :
        /\ status[i] = "failed"
        /\ \A j \in DOMAIN status \ {i} : status[j] = "done")
    => /\ pc # "crashed"
       /\ LeftScrape =>
            \A j \in DOMAIN status :
                status[j] = "done" => AllIn(page_jobs[j], jobs)

\* ceil(t / p), from its definition: the least n with n * p >= t.
CeilDiv(t, p) == CHOOSE n \in 0..t : n * p >= t /\ \A m \in 0..(n - 1) : m * p < t

\* C2: for a page size within [1, 200], a cycle that has been through
\* scrape_jobs has run the task of every page index in 1..ceil(T / P) exactly
\* once, and of no other index.
C2_EveryPageAttemptedOnce ==
    /\ user_prefs.results_per_page \in 1..200
    /\ LeftScrape \/ (pc = "crashed" /\ error = "page_failed")
    => /\ DOMAIN attempts =
            1..CeilDiv(total_search_results, user_prefs.results_per_page)
       /\ \A i \in DOMAIN attempts : attempts[i] = 1

\* C3: the number of page tasks running at once never exceeds the number of
\* pages nor the configured max_threads.
C3_ConcurrencyBounded ==
    /\ Cardinality(Running) <= total_pages
    /\ Cardinality(Running) <= user_prefs.max_threads

\* C3 witness: the pool is full (two tasks run under a cap of two) while a
\* third page waits.
C3_Witness ==
    /\ user_prefs.max_threads = 2
    /\ total_pages = 3
    /\ Cardinality(Running) = 2
    /\ \E i \in DOMAIN status : status[i] = "pending"

\* C4: control is outside scrape_jobs only while no page task is pending or
\* running, and the list is handed to the sort only when every page's task
\* has succeeded.
C4_FullJoin ==
    /\ pc \notin {"collect", "cancel"} =>
          \A i \in DOMAIN status : status[i] \notin {"pending", "running"}
    /\ LeftScrape =>
          /\ DOMAIN status = 1..total_pages
          /\ \A i \in DOMAIN status : status[i] = "done"

\* C4 witness: a failure has left scrape_jobs after a later page's task,
\* which was running when the failure was raised, ran to its end.
C4_Witness ==
    /\ pc = "crashed"
    /\ error = "page_failed"
    /\ \E i \in DOMAIN status : i > next_page /\ status[i] = "done"

\* C5: a listing whose age is within the window is kept iff every skill of
\* the skills setting is among the listing's skills; with an empty setting it
\* is always kept.
C5_SkillSubsetFilter ==
    x_pc = "done" /\ x_days \in 0..user_prefs.max_days_old
    => ((x_jobs # <<>>) <=> (Range(x_in.filter) \subseteq Range(x_in.names)))

\* C5 witness: a listing that advertises the wanted skills and one more is kept.
C5_Witness ==
    /\ x_pc = "done"
    /\ x_in.filter # <<>>
    /\ Range(x_in.filter) \subseteq Range(x_in.names)
    /\ Range(x_in.filter) # Range(x_in.names)
    /\ x_jobs # <<>>

\* C6: a listing that passes the skill filter is kept iff its days_old d
\* satisfies 0 <= d <= max_days_old; with d = -1 it is dropped.
C6_AgeWindowFilter ==
    x_pc = "done" /\ Range(x_in.filter) \subseteq Range(x_in.names)
    => /\ (x_jobs # <<>>) <=> (0 <= x_days /\ x_days <= user_prefs.max_days_old)
       /\ x_days = -1 => x_jobs = <<>>

\* C6 witness: a listing exactly max_days_old days old is kept.
C6_Witness ==
    /\ x_pc = "done"
    /\ x_days = user_prefs.max_days_old
    /\ x_days > 0
    /\ x_jobs # <<>>

IsWord(frag, words) == frag.kind = "word" /\ frag.word \in words

\* The places of a phrase where a number stands right before one of units.
Counted(frags, units) ==
    {i \in 1..(Len(frags) - 1) : frags[i].kind = "num" /\ IsWord(frags[i + 1], units)}

Least(S) == CHOOSE i \in S : \A j \in S : i <= j

\* The rules read on the phrase's words: today; few days; a month(s);
\* <number> day(s); <number> month(s); else -1.
RuleValue(frags) ==
    IF \E i \in 1..Len(frags) : IsWord(frags[i], {Today}) THEN 0
    ELSE IF \E i \in 1..(Len(frags) - 1) :
                IsWord(frags[i], {Few}) /\ IsWord(frags[i + 1], {Days}) THEN 4
    ELSE IF \E i \in 1..(Len(frags) - 1) :
                IsWord(frags[i], {A}) /\ IsWord(frags[i + 1], {Month, Months}) THEN 30
    ELSE IF Counted(frags, {Day, Days}) # {}
        THEN frags[Least(Counted(frags, {Day, Days}))].num
    ELSE IF Counted(frags, {Month, Months}) # {}
        THEN frags[Least(Counted(frags, {Month, Months}))].num * 30
    ELSE -1

\* C7: days_old is the value of the first rule that applies, in the order
\* today, few days, a month, <n> day(s), <n> month(s), else -1; "<n> days ago"
\* gives n and "<n> months ago" gives n * 30; the value is never below -1.
C7_DateNormalizerRules ==
    x_pc = "done"
    => /\ x_days = RuleValue(x_in.frags)
       /\ x_days >= -1
       /\ Len(x_in.frags) = 3 /\ x_in.frags[1].kind = "num" /\ x_in.frags[3] = Word(Ago)
          => /\ x_in.frags[2] = Word(Days) => x_days = x_in.frags[1].num
             /\ x_in.frags[2] = Word(Months) => x_days = x_in.frags[1].num * 30

\* C7 witness: "3 days today" satisfies two rules, and the earlier one decides.
C7_Witness ==
    /\ x_pc = "done"
    /\ x_in.frags = <<Num(3), Word(Days), Word(Today)>>
    /\ x_days = 0

\* The list scrape_jobs returned: the pages' jobs, in page order.
RECURSIVE Aggregate(_)
Aggregate(n) == IF n = 0 THEN <<>> ELSE Aggregate(n - 1) \o page_jobs[n]

\* The place of a report entry's job in that list.
Arrival(entry) ==
    CHOOSE k \in 1..Len(Aggregate(total_pages)) :
        Aggregate(total_pages)[k][2] = entry.text

\* C8: the report lists the jobs scrape_jobs returned in non-decreasing order
\* of days_old, and jobs of equal days_old in the order they had in that list.
C8_ReportSortedStable ==
    pc = "sleep"
    => /\ Len(report.entries) = Len(Aggregate(total_pages))
       /\ \A i, j \in 1..Len(report.entries) :
            i < j =>
               /\ report.entries[i].text.age <= report.entries[j].text.age
               /\ report.entries[i].text.age = report.entries[j].text.age
                    => Arrival(report.entries[i]) < Arrival(report.entries[j])

\* C8 witness: a report with two jobs of the same age, written from a list
\* that was not in order.
C8_Witness ==
    /\ pc = "sleep"
    /\ \E i, j \in 1..Len(report.entries) :
          i < j /\ report.entries[i].text.age = report.entries[j].text.age
    /\ \E i \in 1..(Len(Aggregate(total_pages)) - 1) :
          Aggregate(total_pages)[i][1] > Aggregate(total_pages)[i + 1][1]

\* C9: with a setting outside its range (or no keywords), nothing is fetched.
C9_NoFetchOnInvalidConfig ==
    ~ValidConfig(user_prefs) => ~fetched

\* C10: with valid settings, a cycle ends without its report only when a
\* fetch has failed; whatever count the probe reports, zero included, the
\* cycle reaches the report.
C10_CycleRunsToCompletion ==
    ValidConfig(user_prefs) /\ pc = "crashed"
    => error \in {"probe_failed", "page_failed"}

=============================================================================
